---------------------------- MODULE Spec2Model ----------------------------
(***************************************************************************)
(* A model of corey_schafer_oop.py: the classes Employee, Developer and    *)
(* Manager, their class attributes, and the calls a client can make on     *)
(* them.                                                                   *)
(*                                                                         *)
(* Python values are modelled as follows.                                  *)
(*   - A str is a sequence of one-character strings, so that split and     *)
(*     the f-strings are computed character by character.                  *)
(*   - The value bound to `pay` is tagged with its Python type: the        *)
(*     constructor stores whatever it is given, an int or a str.           *)
(*   - A raise amount is a float literal with two decimals, held as its    *)
(*     number of hundredths (1.04 is 104).  For the literals used here     *)
(*     (1.04, 1.05, 1.10) the IEEE double is not below the decimal,  *)
(*     and int(pay * amount) equals the exact product truncated toward     *)
(*     zero for every |pay| <= 250000.                                     *)
(*   - Objects are identified by their position in `objs` (instances) and  *)
(*     `lists` (list objects); a Manager holds the identity of its list,   *)
(*     so two Managers built with the same list share it.                  *)
(***************************************************************************)
EXTENDS Integers, Sequences, FiniteSets

VARIABLES
    num_of_employees,   \* Employee.num_of_employees
    raise_amount,       \* class -> its own raise_amount attribute, if it has one
    objs,               \* the instances created so far, in creation order
    lists,              \* the list objects handed to or created by Manager.__init__
    exc                 \* the exception the last call raised, "none" if it returned

vars == <<num_of_employees, raise_amount, objs, lists, exc>>

\* The program state proper (everything but the last call's exception).
prog == <<num_of_employees, raise_amount, objs, lists>>

---------------------------------------------------------------------------
(* Bounds of the exploration *)

\* At most this many instances are constructed.
MaxInstances == 2

\* apply_raise is explored on an int pay only while |pay| <= MaxPay.
MaxPay == 100001

\* A list the caller builds for Manager(...) has at most this many items.
MaxListArg == 2

---------------------------------------------------------------------------
(* Texts *)

John == <<"J", "o", "h", "n">>
Doe == <<"D", "o", "e">>
Joe == <<"J", "o", "e">>
Bloggs == <<"B", "l", "o", "g", "g", "s">>
Empty == <<>>
MachineLanguage == <<"M", "L">>

\* employee_string arguments of from_string
RecordTexts ==
    { John \o <<"-">> \o Doe \o <<"-", "7", "0", "0", "0", "0">>,   \* "John-Doe-70000"
      John \o <<"-">> \o Doe,                                       \* "John-Doe"
      John \o <<"-">> \o Doe \o <<"-", "7", "-", "1">>,             \* "John-Doe-7-1"
      Empty }                                                       \* ""

\* values assigned to name_change
NameTexts ==
    { Joe \o <<" ">> \o Bloggs,              \* "Joe Bloggs"
      <<" ">>,                               \* " "
      Joe,                                   \* "Joe"
      Joe \o <<" ", " ">> \o Bloggs }        \* "Joe  Bloggs"

\* (first, last) arguments of the primary constructors
NameArgs == { <<Joe, Bloggs>> }

---------------------------------------------------------------------------
(* Python values *)

Classes == {"Employee", "Developer", "Manager"}

IntVal(n) == [type |-> "int", num |-> n, text |-> Empty]
StrVal(s) == [type |-> "str", num |-> 0, text |-> s]

\* pay arguments of Employee(...), Developer(...) and Manager(...)
EmployeePayArgs == { IntVal(100000), IntVal(-100001) }
DeveloperPayArgs == { IntVal(100000) }
ManagerPayArgs == { IntVal(100001) }

\* amount arguments of set_raise_amount, in hundredths: 1.05
Amounts == {105}

\* cls.__name__
ClassName(cls) ==
    CASE cls = "Employee" -> <<"E", "m", "p", "l", "o", "y", "e", "e">>
      [] cls = "Developer" -> <<"D", "e", "v", "e", "l", "o", "p", "e", "r">>
      [] cls = "Manager" -> <<"M", "a", "n", "a", "g", "e", "r">>

Digit(d) ==
    CASE d = 0 -> "0" [] d = 1 -> "1" [] d = 2 -> "2" [] d = 3 -> "3"
      [] d = 4 -> "4" [] d = 5 -> "5" [] d = 6 -> "6" [] d = 7 -> "7"
      [] d = 8 -> "8" [] d = 9 -> "9"

RECURSIVE NatStr(_)
NatStr(n) == IF n < 10 THEN <<Digit(n)>> ELSE NatStr(n \div 10) \o <<Digit(n % 10)>>

\* str(n) for an int
IntStr(n) == IF n < 0 THEN <<"-">> \o NatStr(-n) ELSE NatStr(n)

\* format(v) inside an f-string, for an int or a str
Format(v) == IF v.type = "int" THEN IntStr(v.num) ELSE v.text

\* A faulty variant, for C7: s.split(sep, 1), which splits at the first separator only
RECURSIVE SplitOnceFrom(_, _, _, _)
SplitOnceFrom(s, sep, i, cur) ==
    IF i > Len(s) THEN <<cur>>
    ELSE IF s[i] = sep THEN <<cur, SubSeq(s, i + 1, Len(s))>>
    ELSE SplitOnceFrom(s, sep, i + 1, Append(cur, s[i]))

split_once(s, sep) == SplitOnceFrom(s, sep, 1, Empty)

\* s.split(sep) for a one-character separator: one more part than separators
RECURSIVE SplitFrom(_, _, _, _)
SplitFrom(s, sep, i, cur) ==
    IF i > Len(s) THEN <<cur>>
    ELSE IF s[i] = sep THEN <<cur>> \o SplitFrom(s, sep, i + 1, Empty)
    ELSE SplitFrom(s, sep, i + 1, Append(cur, s[i]))

split(s, sep) == SplitFrom(s, sep, 1, Empty)

\* A faulty variant, for C4: math.floor(pay * amount) in place of int(pay * amount)
floor_mul(pay, amount) == (pay * amount) \div 100

\* int(pay * amount) for an int pay and a float amount given in hundredths
int_mul(pay, amount) ==
    LET p == pay * amount
    IN IF p >= 0 THEN p \div 100 ELSE -((-p) \div 100)

---------------------------------------------------------------------------
(* Class attributes *)

\* Employee.raise_amount = 1.04 and Developer.raise_amount = 1.10, in hundredths
EmployeeRaiseAmount == 104
DeveloperRaiseAmount == 110

\* A faulty variant, for C2: the subclass's own attribute is ignored
lookup_base_only(cls) == raise_amount["Employee"]

\* cls.raise_amount / self.raise_amount: the class's own attribute if it has
\* one, else the one inherited from Employee.
lookup_raise_amount(cls) ==
    IF cls \in DOMAIN raise_amount THEN raise_amount[cls] ELSE raise_amount["Employee"]

---------------------------------------------------------------------------
(* Instances *)

Ids == 1..Len(objs)
Managers == {i \in Ids : objs[i].cls = "Manager"}

\* Employee.__init__: the attributes every instance gets
EmployeeAttrs(cls, first, last, pay) ==
    [cls |-> cls, first |-> first, last |-> last, pay |-> pay]

\* Employee.fullname
fullname(self) == objs[self].first \o <<" ">> \o objs[self].last

\* Employee.email
email(self) ==
    objs[self].first \o <<".">> \o objs[self].last
        \o <<"@", "c", "o", "m", "p", "a", "n", "y", ".", "c", "o", "m">>

\* Employee.__repr__
Employee_repr(self) ==
    <<"E", "m", "p", "l", "o", "y", "e", "e", "(">> \o objs[self].first \o <<",", " ">>
        \o objs[self].last \o <<",", " ">> \o Format(objs[self].pay) \o <<")">>

\* Employee.__str__
Employee_str(self) == fullname(self) \o <<" ", "-", " ">> \o email(self)

---------------------------------------------------------------------------
(* Operations *)

Init ==
    /\ num_of_employees = 0
    /\ raise_amount = [c \in {"Employee", "Developer"} |->
                          IF c = "Employee" THEN EmployeeRaiseAmount
                          ELSE DeveloperRaiseAmount]
    /\ objs = <<>>
    /\ lists = <<>>
    /\ exc = "none"

\* A faulty variant, for C1: `cls.num_of_employees += 1`, which counts on the subclass
incremented_on_cls(cls) == IF cls = "Employee" THEN num_of_employees + 1 ELSE num_of_employees

\* `Employee.num_of_employees += 1`, run by the __init__ of an instance of cls
incremented(cls) == num_of_employees + 1

\* Manager.__init__'s `employees` argument: None, a list the caller has just
\* built (its items are instances that exist), or a list object that some
\* Manager already holds.
RECURSIVE SeqsUpTo(_, _)
SeqsUpTo(S, n) ==
    IF n = 0 THEN {Empty}
    ELSE LET shorter == SeqsUpTo(S, n - 1)
         IN shorter \cup {Append(q, x) : q \in shorter, x \in S}

EmployeesArgs ==
    {[kind |-> "None", items |-> Empty, ref |-> 0]}
        \cup {[kind |-> "new", items |-> q, ref |-> 0] : q \in SeqsUpTo(Ids, MaxListArg)}
        \cup {[kind |-> "ref", items |-> Empty, ref |-> k] : k \in 1..Len(lists)}

\* `x in l`
contains(l, x) == \E k \in 1..Len(l) : l[k] = x

\* l.remove(x) for an x that is in l: the first occurrence goes
list_remove(l, x) ==
    LET k == CHOOSE j \in 1..Len(l) : l[j] = x /\ \A h \in 1..(j - 1) : l[h] # x
    IN SubSeq(l, 1, k - 1) \o SubSeq(l, k + 1, Len(l))

\* A faulty variant, for C8: the append without the membership test
added_unconditionally(l, employee) == Append(l, employee)

\* the list after Manager.add_employee
added(l, employee) == IF ~contains(l, employee) THEN Append(l, employee) ELSE l

\* A faulty variant, for C10: `self.employees.pop()`, which removes the last entry
removed_last(l, employee) == IF contains(l, employee) THEN SubSeq(l, 1, Len(l) - 1) ELSE l

\* the list after Manager.remove_employee
removed(l, employee) == IF contains(l, employee) THEN list_remove(l, employee) ELSE l

\* A faulty variant, for C3: `Employee.raise_amount` in place of `self.raise_amount`
raised_by_base(pay, cls) == int_mul(pay, raise_amount["Employee"])

\* the pay after Employee.apply_raise on an int pay
raised(pay, cls) == int_mul(pay, lookup_raise_amount(cls))

\* Employee(first, last, pay)
Employee_init(first, last, pay) ==
    /\ Len(objs) < MaxInstances
    /\ objs' = Append(objs, EmployeeAttrs("Employee", first, last, pay))
    /\ num_of_employees' = incremented("Employee")
    /\ exc' = "none"
    /\ UNCHANGED <<raise_amount, lists>>

\* Developer(first, last, pay, prog_lang)
Developer_init(first, last, pay, prog_lang) ==
    /\ Len(objs) < MaxInstances
    /\ objs' = Append(objs, [cls |-> "Developer", first |-> first, last |-> last,
                             pay |-> pay, prog_lang |-> prog_lang])
    /\ num_of_employees' = incremented("Developer")
    /\ exc' = "none"
    /\ UNCHANGED <<raise_amount, lists>>

\* Manager(first, last, pay, employees)
Manager_init(first, last, pay, employees) ==
    /\ Len(objs) < MaxInstances
    /\ lists' = CASE employees.kind = "None" -> Append(lists, Empty)
                  [] employees.kind = "new" -> Append(lists, employees.items)
                  [] employees.kind = "ref" -> lists
    /\ objs' = Append(objs, [cls |-> "Manager", first |-> first, last |-> last,
                             pay |-> pay,
                             employees |-> IF employees.kind = "ref"
                                           THEN employees.ref ELSE Len(lists) + 1])
    /\ num_of_employees' = incremented("Manager")
    /\ exc' = "none"
    /\ UNCHANGED raise_amount

\* cls.from_string(employee_string)
from_string(cls, employee_string) ==
    LET parts == split(employee_string, "-")
    IN IF Len(parts) # 3
       THEN \* the unpacking of a wrong number of values
            /\ exc' = "ValueError"
            /\ UNCHANGED prog
       ELSE IF cls = "Developer"
       THEN \* Developer.__init__ misses its prog_lang argument
            /\ exc' = "TypeError"
            /\ UNCHANGED prog
       ELSE /\ Len(objs) < MaxInstances
            /\ IF cls = "Manager"
               THEN /\ lists' = Append(lists, Empty)
                    /\ objs' = Append(objs, [cls |-> "Manager", first |-> parts[1],
                                             last |-> parts[2], pay |-> StrVal(parts[3]),
                                             employees |-> Len(lists) + 1])
               ELSE /\ lists' = lists
                    /\ objs' = Append(objs, EmployeeAttrs("Employee", parts[1], parts[2],
                                                          StrVal(parts[3])))
            /\ num_of_employees' = incremented(cls)
            /\ exc' = "none"
            /\ UNCHANGED raise_amount

\* self.apply_raise()
apply_raise(self) ==
    LET pay == objs[self].pay
    IN IF pay.type = "int"
       THEN /\ pay.num <= MaxPay /\ -pay.num <= MaxPay
            /\ objs' = [objs EXCEPT ![self].pay = IntVal(raised(pay.num, objs[self].cls))]
            /\ exc' = "none"
            /\ UNCHANGED <<num_of_employees, raise_amount, lists>>
       ELSE \* a str times a float
            /\ exc' = "TypeError"
            /\ UNCHANGED prog

\* cls.set_raise_amount(amount)
set_raise_amount(cls, amount) ==
    /\ raise_amount' = [c \in DOMAIN raise_amount \cup {cls} |->
                           IF c = cls THEN amount ELSE raise_amount[c]]
    /\ exc' = "none"
    /\ UNCHANGED <<num_of_employees, objs, lists>>

\* self.name_change = name
name_change(self, name) ==
    LET parts == split(name, " ")
    IN IF Len(parts) # 2
       THEN /\ exc' = "ValueError"
            /\ UNCHANGED prog
       ELSE /\ objs' = [objs EXCEPT ![self].first = parts[1], ![self].last = parts[2]]
            /\ exc' = "none"
            /\ UNCHANGED <<num_of_employees, raise_amount, lists>>

\* self.add_employee(employee), self a Manager
add_employee(self, employee) ==
    /\ lists' = [lists EXCEPT ![objs[self].employees] = added(@, employee)]
    /\ exc' = "none"
    /\ UNCHANGED <<num_of_employees, raise_amount, objs>>

\* self.remove_employee(employee), self a Manager
remove_employee(self, employee) ==
    /\ lists' = [lists EXCEPT ![objs[self].employees] = removed(@, employee)]
    /\ exc' = "none"
    /\ UNCHANGED <<num_of_employees, raise_amount, objs>>

\* what Manager.print_employees prints: one line per entry of the list
print_employees(self) ==
    [k \in 1..Len(lists[objs[self].employees]) |->
        <<"-", "-", ">", " ">> \o fullname(lists[objs[self].employees][k])]

Next ==
    \/ \E n \in NameArgs, pay \in EmployeePayArgs : Employee_init(n[1], n[2], pay)
    \/ \E n \in NameArgs, pay \in DeveloperPayArgs : Developer_init(n[1], n[2], pay, MachineLanguage)
    \/ \E n \in NameArgs, pay \in ManagerPayArgs, e \in EmployeesArgs :
          Manager_init(n[1], n[2], pay, e)
    \/ \E cls \in Classes, s \in RecordTexts : from_string(cls, s)
    \/ \E self \in Ids : apply_raise(self)
    \/ \E cls \in Classes, amount \in Amounts : set_raise_amount(cls, amount)
    \/ \E self \in Ids, name \in NameTexts : name_change(self, name)
    \/ \E self \in Managers, employee \in Ids : add_employee(self, employee)
    \/ \E self \in Managers, employee \in Ids : remove_employee(self, employee)

Spec == Init /\ [][Next]_vars

---------------------------------------------------------------------------
(* Claims *)

\* C1: the counter equals the number of instances constructed so far, of
\* whatever class and by whatever constructor; a step that constructs no
\* instance leaves it unchanged, a step that constructs one adds one, and it
\* never decreases.
C1_CounterCountsConstructions ==
    /\ [](num_of_employees = Len(objs))
    /\ [][/\ num_of_employees' >= num_of_employees
          /\ Len(objs') = Len(objs) => num_of_employees' = num_of_employees
          /\ Len(objs') # Len(objs) =>
                /\ Len(objs') = Len(objs) + 1
                /\ num_of_employees' = num_of_employees + 1]_vars

\* C1 witness: two instances of different classes, one of them built by
\* from_string, have been counted.
C1_Witness ==
    /\ num_of_employees = 2
    /\ objs[1].cls # objs[2].cls
    /\ \E i \in Ids : objs[i].pay.type = "str"

\* The exact product pay * amount (amount in hundredths) lies in [r, r + 1):
\* r is its floor.
IsFloorOf(r, pay, amount) == 100 * r <= pay * amount /\ pay * amount < 100 * (r + 1)

\* r is the product truncated toward zero.
IsTruncOf(r, pay, amount) ==
    IF pay * amount >= 0 THEN IsFloorOf(r, pay, amount)
    ELSE 100 * (r - 1) < pay * amount /\ pay * amount <= 100 * r

\* C2, as claimed: whatever class set_raise_amount is called on, afterwards
\* the factor in force for every Employee and Manager instance is the amount
\* just set and the factor in force for every Developer instance is 1.10.
C2_AsClaimed ==
    [][\A cls \in Classes, amount \in Amounts :
          set_raise_amount(cls, amount) =>
             \A i \in Ids :
                lookup_raise_amount(objs[i].cls)'
                    = IF objs[i].cls = "Developer" THEN DeveloperRaiseAmount ELSE amount]_vars

\* C2, amended: a call on Employee sets the factor in force for Employee, and
\* for Manager as long as no call on Manager has given Manager a factor of
\* its own, and leaves Developer's alone; Developer's factor starts at 1.10
\* and only a call on Developer changes it; a call on Developer or Manager
\* sets that class's own factor and leaves Employee's alone.
C2_OverrideIsolation ==
    /\ lookup_raise_amount("Developer") = DeveloperRaiseAmount
    /\ [][/\ \A amount \in Amounts :
                set_raise_amount("Employee", amount) =>
                   /\ lookup_raise_amount("Employee")' = amount
                   /\ "Manager" \notin DOMAIN raise_amount =>
                         lookup_raise_amount("Manager")' = amount
                   /\ lookup_raise_amount("Developer")' = lookup_raise_amount("Developer")
          /\ \A cls \in {"Developer", "Manager"}, amount \in Amounts :
                set_raise_amount(cls, amount) =>
                   /\ lookup_raise_amount(cls)' = amount
                   /\ lookup_raise_amount("Employee")' = lookup_raise_amount("Employee")
          /\ lookup_raise_amount("Developer")' # lookup_raise_amount("Developer") =>
                \E amount \in Amounts : set_raise_amount("Developer", amount)]_vars

\* C2 witness: after a call on Employee, a Manager gets the new factor while
\* a Developer still gets 1.10.
C2_Witness ==
    /\ raise_amount = [c \in {"Employee", "Developer"} |->
                          IF c = "Employee" THEN 105 ELSE DeveloperRaiseAmount]
    /\ \E i \in Ids : objs[i].cls = "Manager" /\ lookup_raise_amount(objs[i].cls) = 105
    /\ \E i \in Ids : /\ objs[i].cls = "Developer"
                       /\ lookup_raise_amount(objs[i].cls) = DeveloperRaiseAmount

\* the frame of apply_raise(self): nothing but self's pay changes
ApplyRaiseFrame(self) ==
    /\ Len(objs') = Len(objs)
    /\ objs'[self].cls = objs[self].cls
    /\ objs'[self].first = objs[self].first
    /\ objs'[self].last = objs[self].last
    /\ \A other \in Ids \ {self} : objs'[other] = objs[other]
    /\ UNCHANGED <<num_of_employees, raise_amount, lists>>

\* C3, as claimed: one application of apply_raise to an int pay leaves the
\* floor of pay times the factor of the instance's class.
C3_AsClaimed ==
    [][\A self \in Ids :
          (apply_raise(self) /\ objs[self].pay.type = "int") =>
             /\ objs'[self].pay.type = "int"
             /\ IsFloorOf(objs'[self].pay.num, objs[self].pay.num,
                          lookup_raise_amount(objs[self].cls))]_vars

\* C3, amended: one application of apply_raise to an int pay leaves the
\* product of pay and the factor of the instance's class truncated toward
\* zero (its floor when it is not negative), whence 100000 becomes 110000
\* for a Developer and 104000 for an Employee or a Manager under the default
\* factors; nothing else changes.  On a str pay it raises TypeError and
\* changes nothing.
C3_ApplyRaisePolymorphic ==
    [][\A self \in Ids :
          apply_raise(self) =>
             IF objs[self].pay.type = "int"
             THEN /\ exc' = "none"
                  /\ objs'[self].pay.type = "int"
                  /\ IsTruncOf(objs'[self].pay.num, objs[self].pay.num,
                               lookup_raise_amount(objs[self].cls))
                  /\ (/\ objs[self].pay.num = 100000
                      /\ lookup_raise_amount(objs[self].cls)
                            = IF objs[self].cls = "Developer" THEN DeveloperRaiseAmount
                              ELSE EmployeeRaiseAmount) =>
                        objs'[self].pay.num
                            = IF objs[self].cls = "Developer" THEN 110000 ELSE 104000
                  /\ ApplyRaiseFrame(self)
             ELSE exc' = "TypeError" /\ UNCHANGED prog]_vars

\* C3 witness: under the default factors a Developer has been raised from
\* 100000 to 110000 and an Employee from 100000 to 104000.
C3_Witness ==
    /\ raise_amount = [c \in {"Employee", "Developer"} |->
                          IF c = "Employee" THEN EmployeeRaiseAmount
                          ELSE DeveloperRaiseAmount]
    /\ \E i \in Ids : objs[i].cls = "Developer" /\ objs[i].pay = IntVal(110000)
    /\ \E i \in Ids : objs[i].cls = "Employee" /\ objs[i].pay = IntVal(104000)

\* C4, as claimed: after every application of apply_raise to an int pay, of
\* either sign, pay is a non-negative int, the floor of the previous pay
\* times the factor.
C4_AsClaimed ==
    [][\A self \in Ids :
          (apply_raise(self) /\ objs[self].pay.type = "int") =>
             /\ objs'[self].pay.type = "int"
             /\ objs'[self].pay.num >= 0
             /\ IsFloorOf(objs'[self].pay.num, objs[self].pay.num,
                          lookup_raise_amount(objs[self].cls))]_vars

\* C4, amended: the factors being positive, apply_raise takes a non-negative
\* int pay to a non-negative int, the floor of pay times the factor, and a
\* negative int pay to a negative or zero int, the product truncated toward
\* zero, which is greater than the floor unless the product is whole; no
\* step takes an int pay across zero.
C4_PayAfterRaise ==
    /\ [][\A self \in Ids :
             (apply_raise(self) /\ objs[self].pay.type = "int") =>
                LET pay == objs[self].pay.num
                    amount == lookup_raise_amount(objs[self].cls)
                    new == objs'[self].pay
                IN /\ new.type = "int"
                   /\ pay >= 0 => new.num >= 0 /\ IsFloorOf(new.num, pay, amount)
                   /\ pay < 0 =>
                         /\ new.num <= 0
                         /\ IsTruncOf(new.num, pay, amount)
                         /\ IsFloorOf(new.num, pay, amount) <=> (pay * amount) % 100 = 0]_vars
    /\ [][\A self \in Ids :
             (objs[self].pay.type = "int" /\ objs'[self].pay.type = "int") =>
                /\ objs[self].pay.num >= 0 => objs'[self].pay.num >= 0
                /\ objs[self].pay.num < 0 => objs'[self].pay.num <= 0]_vars

\* C4 witness: a pay has been raised to a value that is not a whole multiple
\* of the factor (100001 * 1.04 = 104001.04), and a negative pay has been
\* raised (-100001 * 1.04 = -104001.04).
C4_Witness ==
    /\ \E i \in Ids : objs[i].pay = IntVal(104001)
    /\ \E i \in Ids : objs[i].pay = IntVal(-104001)

\* the number of occurrences of the character sep in the text s
Occurrences(s, sep) == Cardinality({i \in 1..Len(s) : s[i] = sep})

DigitChars == {"0", "1", "2", "3", "4", "5", "6", "7", "8", "9"}

\* the text s is a decimal numeral
IsNumeral(s) == Len(s) > 0 /\ \A i \in 1..Len(s) : s[i] \in DigitChars

\* the number a decimal numeral denotes
RECURSIVE NumeralValue(_)
NumeralValue(s) ==
    IF Len(s) = 0 THEN 0
    ELSE 10 * NumeralValue(SubSeq(s, 1, Len(s) - 1))
            + (CHOOSE d \in 0..9 : Digit(d) = s[Len(s)])

\* C5: from_string on a text of three '-'-separated fields, the third a
\* numeral, leaves the instance the primary constructor makes from the
\* first two fields and the number the third denotes:
\* Employee.from_string("John-Doe-70000") is Employee("John", "Doe", 70000).
C5_FromStringParsesPay ==
    [][\A s \in RecordTexts :
          LET parts == split(s, "-")
          IN (/\ from_string("Employee", s)
              /\ Len(parts) = 3
              /\ IsNumeral(parts[3])) =>
                /\ Len(objs') = Len(objs) + 1
                /\ objs'[Len(objs')] = EmployeeAttrs("Employee", parts[1], parts[2],
                                                      IntVal(NumeralValue(parts[3])))]_vars

\* C6: apply_raise, set_raise_amount, add_employee and remove_employee never
\* raise, whatever instance they are called on, however it was constructed.
\* (fullname, email and print_employees are total operators of the model.)
C6_OperationsNeverRaise ==
    [][/\ \A self \in Ids : apply_raise(self) => exc' = "none"
       /\ \A cls \in Classes, amount \in Amounts :
             set_raise_amount(cls, amount) => exc' = "none"
       /\ \A self \in Managers, employee \in Ids :
             (add_employee(self, employee) \/ remove_employee(self, employee)) =>
                exc' = "none"]_vars

C9_ReprNamesOwnClass ==
    \A self \in Ids :
        Employee_repr(self)
            = ClassName(objs[self].cls) \o <<"(">> \o objs[self].first \o <<",", " ">>
                \o objs[self].last \o <<",", " ">> \o Format(objs[self].pay) \o <<")">>

\* the number of occurrences of x in the list l
count(l, x) == Cardinality({k \in 1..Len(l) : l[k] = x})

\* the list object Manager self holds
ListOf(self) == objs[self].employees

\* what add_employee and remove_employee on self leave alone, other than
\* the lists: the instances (so every field of self), the counter, the factors
TeamFrame == objs' = objs /\ UNCHANGED <<num_of_employees, raise_amount>> /\ exc' = "none"

\* what add_employee(self, employee) does to self's list: a second add
\* changes nothing, an absent employee is appended and then occurs once, a
\* present one changes nothing
AddEffect(self, employee) ==
    LET l == lists[ListOf(self)]
        after == lists'[ListOf(self)]
    IN /\ added(after, employee) = after
       /\ ~contains(l, employee) => after = Append(l, employee) /\ count(after, employee) = 1
       /\ contains(l, employee) => after = l

\* what remove_employee(self, employee) does when employee is absent
RemoveAbsentEffect(self, employee) ==
    ~contains(lists[ListOf(self)], employee) => lists' = lists

\* C8, as claimed: add_employee is idempotent, remove_employee of an absent
\* employee changes nothing, and neither changes another field of the
\* Manager, the counter, or the list of any other Manager.
C8_AsClaimed ==
    [][\A self \in Managers, employee \in Ids :
          LET Claimed == /\ TeamFrame
                         /\ \A other \in Managers \ {self} :
                               lists'[ListOf(other)] = lists[ListOf(other)]
          IN /\ add_employee(self, employee) => AddEffect(self, employee) /\ Claimed
             /\ remove_employee(self, employee) =>
                   RemoveAbsentEffect(self, employee) /\ Claimed]_vars

\* C8, amended: as claimed, except that the Managers left alone are those
\* that hold another list object: a Manager constructed with the list object
\* self holds sees every change made through self.
C8_TeamOperations ==
    \A self \in Managers, employee \in Ids :
       LET Amended == /\ TeamFrame
                      /\ Len(lists') = Len(lists)
                      /\ \A k \in 1..Len(lists) : k # ListOf(self) => lists'[k] = lists[k]
                      /\ \A other \in Managers :
                            ListOf(other) # ListOf(self) =>
                               lists'[ListOf(other)] = lists[ListOf(other)]
       IN /\ ~ENABLED (add_employee(self, employee)
                          /\ ~(AddEffect(self, employee) /\ Amended))
          /\ ~ENABLED (remove_employee(self, employee)
                          /\ ~(RemoveAbsentEffect(self, employee) /\ Amended))

\* C8 witness: a Manager has been added to its own list (where only
\* add_employee can put it), and occurs in it once.
C8_Witness == \E self \in Managers : count(lists[ListOf(self)], self) = 1

\* no entry of l occurs twice
NoDuplicates(l) == \A i, j \in 1..Len(l) : l[i] = l[j] => i = j

\* C10, as claimed: in every reachable state no employee occurs twice in a
\* Manager's list, and after remove_employee(m, p) p is not in m's list.
C10_AsClaimed ==
    /\ [](\A self \in Managers : NoDuplicates(lists[ListOf(self)]))
    /\ [](\A self \in Managers, employee \in Ids :
             ~ENABLED (remove_employee(self, employee)
                          /\ contains(lists'[ListOf(self)], employee)))

\* C10, amended: a list without duplicates never gets one, whoever shares
\* it; a Manager constructed without a list starts with an empty one; and
\* after remove_employee(m, p) on a list without duplicates p is not in it.
\* (A list the caller supplies is held as it is, and of an employee it
\* repeats remove_employee removes the first occurrence only.)
C10_NoDuplicateIntroduced ==
    /\ [][\A k \in 1..Len(lists) : NoDuplicates(lists[k]) => NoDuplicates(lists'[k])]_vars
    /\ [](\A self \in Managers, employee \in Ids :
             NoDuplicates(lists[ListOf(self)]) =>
                ~ENABLED (remove_employee(self, employee)
                             /\ contains(lists'[ListOf(self)], employee)))
    /\ [](\A n \in NameArgs, pay \in ManagerPayArgs :
             ~ENABLED (Manager_init(n[1], n[2], pay,
                                    [kind |-> "None", items |-> Empty, ref |-> 0])
                          /\ lists'[objs'[Len(objs')].employees] # Empty))

\* C10 witness: a duplicate-free list of two entries that only add_employee
\* can have built (instance 2 was added before instance 1).
C10_Witness == \E self \in Managers : lists[ListOf(self)] = <<2, 1>>

=============================================================================
